---- MODULE Spec2Model ----
(***************************************************************************)
(* State-machine model of battery_dashboard.py: the Streamlit session      *)
(* state (cells_data, tasks_data, the run flags, the log) and one action   *)
(* per handler of the three tabs that write it.                            *)
(*                                                                         *)
(* Numbers are fixed point, exact for the inputs enumerated below:         *)
(*   voltage   in units of 0.0001 V   (3.6 V  = 36000)                     *)
(*   current   in units of 0.01 A     (2.0 A  = 200)                       *)
(*   temp      in units of 0.01 degC  (25 degC = 2500)                     *)
(*   capacity  in units of 1e-6       (voltage unit * current unit)        *)
(*   time      in whole seconds of the wall clock (time.time())            *)
(***************************************************************************)
EXTENDS Integers, Sequences, FiniteSets, TLC

VARIABLES
    cells_data,             \* st.session_state.cells_data: key -> cell record
    tasks_data,             \* st.session_state.tasks_data: key -> sequence of tasks
    simulation_running,     \* st.session_state.simulation_running
    simulation_completed,   \* st.session_state.simulation_completed
    simulation_data,        \* st.session_state.simulation_data: the log
    start_time,             \* st.session_state.start_time (None before a run)
    total_simulation_time,  \* st.session_state.total_simulation_time
    tab_selection,          \* the sidebar selectbox: the tab the last script run executed
    updated_cells,          \* what the last processed tick reported per cell
    now,                    \* the wall clock, time.time()
    steps                   \* the number of script runs and clock seconds so far

vars == <<cells_data, tasks_data, simulation_running, simulation_completed,
          simulation_data, start_time, total_simulation_time, tab_selection,
          updated_cells, now, steps>>

----------------------------------------------------------------------------
(* Bounds of the model *)

\* The most cells configured at once
MaxCells == 2
\* The most tasks in one cell's list
MaxTasks == 2
\* The last second the wall clock reaches
MaxTime == 3
\* The most data points one run logs
MaxLog == 2
\* The most script runs in one behaviour
MaxSteps == 11

----------------------------------------------------------------------------
(* Helpers *)

Min(a, b) == IF a < b THEN a ELSE b

Max(a, b) == IF a > b THEN a ELSE b

Abs(x) == IF x < 0 THEN -x ELSE x

\* dict.get(key, default)
Get(d, key, default) == IF key \in DOMAIN d THEN d[key] ELSE default

\* d[key] = value
Put(d, key, value) == [k \in DOMAIN d \cup {key} |-> IF k = key THEN value ELSE d[k]]

\* del d[key]
Del(d, key) == [k \in DOMAIN d \ {key} |-> d[k]]

\* st.session_state.start_time = None
None == -1

\* round(x, 2) of a capacity: to the nearest 0.01, i.e. the nearest 10000 units
Round2(x) == ((x + 5000) \div 10000) * 10000

CellTypes == {"LFP", "Li-ion"}

\* cell_type.lower()
Lower(cell_type) == IF cell_type = "LFP" THEN "lfp" ELSE "li-ion"

\* f"cell_{n}_{cell_type.lower()}"
CellKey(n, cell_type) == <<n, Lower(cell_type)>>

----------------------------------------------------------------------------
(* Cell management *)

\* One outcome of the three random.uniform draws of randomize_cell_data, after
\* rounding: the voltage's offset above the low end of its band, the current
\* and the temperature.
RandomDraws == { [v |-> 100,  c |-> 1,   t |-> 2500] }

\* The fields randomize_cell_data writes.
CellFields == {"voltage", "current", "temp", "capacity", "min_voltage", "max_voltage"}

randomize_cell_data(cell_type, draw) ==
    LET lfp == Lower(cell_type) = "lfp"
        voltage == IF lfp THEN 30000 + draw.v ELSE 34000 + draw.v
    IN  [ voltage     |-> voltage,
          current     |-> draw.c,
          temp        |-> draw.t,
          capacity    |-> Round2(voltage * draw.c),
          min_voltage |-> IF lfp THEN 28000 ELSE 32000,
          max_voltage |-> IF lfp THEN 36000 ELSE 40000 ]

\* The record the two add forms store for one cell.
NewCell(cell_type, voltage, current, temp, capacity) ==
    LET lfp == Lower(cell_type) = "lfp"
    IN  [ type        |-> cell_type,
          voltage     |-> voltage,
          current     |-> current,
          temp        |-> temp,
          capacity    |-> capacity,
          min_voltage |-> IF lfp THEN 28000 ELSE 32000,
          max_voltage |-> IF lfp THEN 36000 ELSE 40000 ]

\* The loop of both add forms: each cell is stored under the key made of the
\* number of cells at that moment plus one, and of its type.
RECURSIVE AddCells(_, _)
AddCells(cells, new) ==
    IF new = <<>> THEN cells
    ELSE LET cell_key == CellKey(Cardinality(DOMAIN cells) + 1, Head(new).type)
         IN  AddCells(Put(cells, cell_key, Head(new)), Tail(new))

\* What the manual form stores for one cell, given the form's values
\* (number_input ranges: voltage 0..5, current 0..10, temp 0..80, capacity
\* 0..100): the form's defaults, and the upper end of every range.
ManualDefault == NewCell("LFP", 32000, 0, 2500, 0)

ManualHighest == NewCell("Li-ion", 50000, 1000, 8000, 100000000)

\* What the quick form stores for one cell
QuickCell(cell_type, draw) ==
    LET random_data == randomize_cell_data(cell_type, draw)
    IN  NewCell(cell_type, random_data.voltage, random_data.current,
                random_data.temp, random_data.capacity)

\* The sequences of 1..n elements of S
SeqsUpTo(S, n) == UNION { [1..k -> S] : k \in 1..n }

\* "Add Cells with Random Data"
QuickAdd(new) ==
    /\ tab_selection = "Cell Configuration"
    /\ Cardinality(DOMAIN cells_data) + Len(new) <= MaxCells
    /\ cells_data' = AddCells(cells_data, new)
    /\ UNCHANGED <<tasks_data, simulation_running, simulation_completed,
                   simulation_data, start_time, total_simulation_time,
                   tab_selection, updated_cells, now>>

\* "Add Cells Manually"
AddManually(new) ==
    /\ tab_selection = "Cell Configuration"
    /\ Cardinality(DOMAIN cells_data) + Len(new) <= MaxCells
    /\ cells_data' = AddCells(cells_data, new)
    /\ UNCHANGED <<tasks_data, simulation_running, simulation_completed,
                   simulation_data, start_time, total_simulation_time,
                   tab_selection, updated_cells, now>>

\* "Randomize <cell_key>"
Randomize(cell_key, draw) ==
    /\ tab_selection = "Cell Configuration"
    /\ cell_key \in DOMAIN cells_data
    /\ LET random_data == randomize_cell_data(Get(cells_data[cell_key], "type", "li-ion"), draw)
       IN  cells_data' = [cells_data EXCEPT ![cell_key] =
                            [f \in DOMAIN @ |-> IF f \in CellFields THEN random_data[f] ELSE @[f]]]
    /\ UNCHANGED <<tasks_data, simulation_running, simulation_completed,
                   simulation_data, start_time, total_simulation_time,
                   tab_selection, updated_cells, now>>

\* "Remove <cell_key>"
RemoveCell(cell_key) ==
    /\ tab_selection = "Cell Configuration"
    /\ cell_key \in DOMAIN cells_data
    /\ cells_data' = Del(cells_data, cell_key)
    /\ tasks_data' = IF cell_key \in DOMAIN tasks_data THEN Del(tasks_data, cell_key)
                     ELSE tasks_data
    /\ UNCHANGED <<simulation_running, simulation_completed, simulation_data,
                   start_time, total_simulation_time, tab_selection,
                   updated_cells, now>>

----------------------------------------------------------------------------
(* Task management *)

\* A task as the task form builds it. The fields cc_cp and capacity, which
\* no code reads, are left out.
CCCV(cv_voltage, current, time_seconds) ==
    [ task_type |-> "CC_CV", cv_voltage |-> cv_voltage, current |-> current,
      time_seconds |-> time_seconds ]

CCCD(voltage, time_seconds) ==
    [ task_type |-> "CC_CD", voltage |-> voltage, time_seconds |-> time_seconds ]

IDLE(time_seconds) ==
    [ task_type |-> "IDLE", time_seconds |-> time_seconds ]

\* What the task form is given: a CC_CV task with the form's default CV
\* voltage (4.0 V) and current (2.0 A) lasting 2 s, and an IDLE task of 1 s.
TaskInputs ==
    { CCCV(40000, 200, 2), IDLE(1) }

\* if selected_cell not in tasks_data: tasks_data[selected_cell] = []
EnsureTasks(tasks, selected_cell) ==
    IF selected_cell \in DOMAIN tasks THEN tasks ELSE Put(tasks, selected_cell, <<>>)

\* list.pop(i), i counted from 0
Pop(list, i) == [k \in 1..(Len(list) - 1) |-> IF k <= i THEN list[k] ELSE list[k + 1]]

\* A script run of task_management_tab with selected_cell chosen and no button pressed
TaskManagementRun(selected_cell) ==
    /\ selected_cell \in DOMAIN cells_data
    /\ tasks_data' = EnsureTasks(tasks_data, selected_cell)

\* "Add Task"
AddTask(selected_cell, task_data) ==
    /\ tab_selection = "Task Management"
    /\ selected_cell \in DOMAIN cells_data
    /\ Len(Get(tasks_data, selected_cell, <<>>)) < MaxTasks
    /\ LET tasks == EnsureTasks(tasks_data, selected_cell)
       IN  tasks_data' = [tasks EXCEPT ![selected_cell] = Append(@, task_data)]
    /\ UNCHANGED <<cells_data, simulation_running, simulation_completed,
                   simulation_data, start_time, total_simulation_time,
                   tab_selection, updated_cells, now>>

\* "Remove Task <i+1>"
RemoveTask(selected_cell, i) ==
    /\ tab_selection = "Task Management"
    /\ selected_cell \in DOMAIN cells_data
    /\ selected_cell \in DOMAIN tasks_data
    /\ i \in 0..(Len(tasks_data[selected_cell]) - 1)
    /\ tasks_data' = [tasks_data EXCEPT ![selected_cell] = Pop(@, i)]
    /\ UNCHANGED <<cells_data, simulation_running, simulation_completed,
                   simulation_data, start_time, total_simulation_time,
                   tab_selection, updated_cells, now>>

----------------------------------------------------------------------------
(* Signal synthesis *)

\* The ends of a random.uniform range: 0 the low end, 1 the high end
UniformEnds == {0, 1}

\* The branch task_type == "CC_CV": the CC phase while elapsed_time is under
\* half of time_seconds, then the CV phase. u picks the end of the range the
\* temperature's random.uniform draw takes.
\* CC_CV with the constant-current ramp left unclamped
CC_CVUnclamped(cell_data, task_data, elapsed_time, u) ==
    LET cc_phase  == 2 * elapsed_time < Get(task_data, "time_seconds", 0)
        cv_target == Get(task_data, "cv_voltage", cell_data.max_voltage)
    IN  [ cell_data EXCEPT
            !.current = IF cc_phase THEN Get(task_data, "current", 0)
                        ELSE Max((Get(task_data, "current", 0) * 95) \div 100, 10),
            !.voltage = IF cc_phase
                        THEN cell_data.voltage + 10 * elapsed_time
                        ELSE cv_target,
            !.temp    = Min(cell_data.temp + (40 * u - 10), 5000) ]

CC_CV(cell_data, task_data, elapsed_time, u) ==
    LET cc_phase  == 2 * elapsed_time < Get(task_data, "time_seconds", 0)
        cv_target == Get(task_data, "cv_voltage", cell_data.max_voltage)
    IN  [ cell_data EXCEPT
            !.current = IF cc_phase THEN Get(task_data, "current", 0)
                        ELSE Max((Get(task_data, "current", 0) * 95) \div 100, 10),
            !.voltage = IF cc_phase
                        THEN Min(cell_data.voltage + 10 * elapsed_time, cv_target)
                        ELSE cv_target,
            !.temp    = Min(cell_data.temp + (40 * u - 10), 5000) ]

\* The branch task_type == "CC_CD"
CC_CD(cell_data, task_data, elapsed_time, u) ==
    [ cell_data EXCEPT
        !.current = -Abs(Get(task_data, "current", 0)),
        !.voltage = Max(cell_data.voltage - 5 * elapsed_time, cell_data.min_voltage),
        !.temp    = Min(cell_data.temp + (25 * u - 5), 4500) ]

\* The branch task_type == "IDLE"
\* IDLE with the cell's current left as it was
IdleKeepsCurrent(cell_data, task_data, elapsed_time, u) ==
    [ cell_data EXCEPT !.temp = Max(cell_data.temp - 5, 2500) ]

Idle(cell_data, task_data, elapsed_time, u) ==
    [ cell_data EXCEPT
        !.current = 0,
        !.temp    = Max(cell_data.temp - 5, 2500) ]

\* simulate_task_execution on a copy of the cell's record: the branch of the
\* task's type, none for a type it does not know, then the capacity.
simulate_task_execution(cell_data, task_data, elapsed_time, u) ==
    LET task_type == Get(task_data, "task_type", "IDLE")
        after ==
            IF task_type = "CC_CV" THEN CC_CV(cell_data, task_data, elapsed_time, u)
            ELSE IF task_type = "CC_CD" THEN CC_CD(cell_data, task_data, elapsed_time, u)
            ELSE IF task_type = "IDLE" THEN Idle(cell_data, task_data, elapsed_time, u)
            ELSE cell_data
    IN  [ after EXCEPT !.capacity = Abs(after.voltage * after.current) ]

----------------------------------------------------------------------------
(* Simulation *)

\* sum(task['time_seconds'] for task in tasks)
RECURSIVE SumTime(_)
SumTime(tasks) ==
    IF tasks = <<>> THEN 0 ELSE Head(tasks).time_seconds + SumTime(Tail(tasks))

\* The loop that computes total_time over tasks_data.items()
RECURSIVE TotalTimeOver(_, _, _)

\* A variant of the loop that adds the cells' totals up instead of keeping
\* the largest
RECURSIVE TotalTimeSummed(_, _, _)
TotalTimeSummed(tasks_map, keys, total_time) ==
    IF keys = {} THEN total_time
    ELSE LET cell_key == CHOOSE k \in keys : TRUE
         IN  TotalTimeSummed(tasks_map, keys \ {cell_key},
                             total_time + SumTime(tasks_map[cell_key]))

TotalTimeOver(tasks_map, keys, total_time) ==
    IF keys = {} THEN total_time
    ELSE LET cell_key == CHOOSE k \in keys : TRUE
             tasks == tasks_map[cell_key]
         IN  TotalTimeOver(tasks_map, keys \ {cell_key},
                           IF tasks # <<>> THEN Max(total_time, SumTime(tasks))
                           ELSE total_time)

total_time == TotalTimeOver(tasks_data, DOMAIN tasks_data, 0)

\* A variant of the loop below whose window is closed at its upper end
RECURSIVE FindTaskClosed(_, _, _, _)
FindTaskClosed(tasks, elapsed, i, cumulative_time) ==
    IF i > Len(tasks) THEN [task_index |-> -1, task_elapsed |-> 0]
    ELSE IF /\ elapsed >= cumulative_time
            /\ elapsed <= cumulative_time + tasks[i].time_seconds
         THEN [task_index |-> i - 1, task_elapsed |-> elapsed - cumulative_time]
         ELSE FindTaskClosed(tasks, elapsed, i + 1, cumulative_time + tasks[i].time_seconds)

\* The loop that finds the current task: from task i (counted from 1) on, with
\* cumulative_time the durations of the tasks before it. task_index is -1 and
\* current_task is None when the loop ends without a break.
RECURSIVE FindTask(_, _, _, _)
FindTask(tasks, elapsed, i, cumulative_time) ==
    IF i > Len(tasks) THEN [task_index |-> -1, task_elapsed |-> 0]
    ELSE IF /\ elapsed >= cumulative_time
            /\ elapsed < cumulative_time + tasks[i].time_seconds
         THEN [task_index |-> i - 1, task_elapsed |-> elapsed - cumulative_time]
         ELSE FindTask(tasks, elapsed, i + 1, cumulative_time + tasks[i].time_seconds)

\* r with the fields of extra added: {**r, **extra}
Merge(r, extra) ==
    [f \in DOMAIN r \cup DOMAIN extra |-> IF f \in DOMAIN extra THEN extra[f] ELSE r[f]]

\* The keys the tick's loop treats: cells with a non-empty task list
TickKeys == { cell_key \in DOMAIN tasks_data :
                tasks_data[cell_key] # <<>> /\ cell_key \in DOMAIN cells_data }

\* cells_data[cell_key] after the tick: written only when a task is current
TickCell(cell_key, elapsed, u) ==
    LET tasks == tasks_data[cell_key]
        found == FindTask(tasks, elapsed, 1, 0)
    IN  IF found.task_index >= 0
        THEN simulate_task_execution(cells_data[cell_key], tasks[found.task_index + 1],
                                     found.task_elapsed, u)
        ELSE cells_data[cell_key]

\* updated_cells[cell_key]. task_elapsed, which the code reports as
\* task_progress = task_elapsed / time_seconds * 100, is kept beside it.
TickReport(cell_key, elapsed, u) ==
    LET tasks == tasks_data[cell_key]
        found == FindTask(tasks, elapsed, 1, 0)
    IN  IF found.task_index >= 0
        THEN LET current_task == tasks[found.task_index + 1]
             IN  Merge(TickCell(cell_key, elapsed, u),
                       [ current_task  |-> current_task.task_type,
                         task_index    |-> found.task_index + 1,
                         task_elapsed  |-> found.task_elapsed,
                         task_progress |-> (found.task_elapsed * 100)
                                              \div current_task.time_seconds ])
        ELSE Merge(cells_data[cell_key],
                   [ current_task  |-> "COMPLETED",
                     task_index    |-> Len(tasks),
                     task_elapsed  |-> 0,
                     task_progress |-> 100 ])

\* The numeric parameters of a report whose names do not start with "task"
LoggedFields == {"voltage", "current", "temp", "capacity", "min_voltage", "max_voltage"}

\* data_point
DataPoint(elapsed, reports) ==
    [ timestamp |-> now, elapsed |-> elapsed,
      cells |-> [cell_key \in DOMAIN reports |->
                    [f \in LoggedFields |-> reports[cell_key][f]]] ]

\* elapsed = current_time - start_time if start_time else 0 (time.time() is
\* never 0, so start_time is falsy only when it is None)
Elapsed == IF start_time # None THEN now - start_time ELSE 0

\* The two guards at the top of simulation_tab
SimGuard ==
    /\ DOMAIN cells_data # {}
    /\ \E cell_key \in DOMAIN tasks_data : tasks_data[cell_key] # <<>>

\* A variant of the test below that lets the tick at total_time be processed
RunIsOverLate(elapsed, total) == elapsed > total

\* if elapsed >= total_time: the run completes and the script reruns
RunIsOver(elapsed, total) == elapsed >= total

\* A script run of simulation_tab with no button pressed; u gives each cell's
\* random draw, and the log holds at most max_log data points.
SimulationRunUpTo(u, max_log) ==
    IF ~SimGuard
    THEN UNCHANGED <<cells_data, tasks_data, simulation_running, simulation_completed,
                     simulation_data, start_time, total_simulation_time, updated_cells>>
    ELSE /\ total_simulation_time' = total_time
         /\ IF ~simulation_running
            THEN UNCHANGED <<cells_data, tasks_data, simulation_running,
                             simulation_completed, simulation_data, start_time,
                             updated_cells>>
            ELSE IF RunIsOver(Elapsed, total_time)
            THEN /\ simulation_running' = FALSE
                 /\ simulation_completed' = TRUE
                 /\ UNCHANGED <<cells_data, tasks_data, simulation_data, start_time,
                                updated_cells>>
            ELSE /\ Len(simulation_data) < max_log
                 /\ cells_data' = [cell_key \in DOMAIN cells_data |->
                                     IF cell_key \in TickKeys
                                     THEN TickCell(cell_key, Elapsed, u[cell_key])
                                     ELSE cells_data[cell_key]]
                 /\ updated_cells' = [cell_key \in TickKeys |->
                                        TickReport(cell_key, Elapsed, u[cell_key])]
                 /\ simulation_data' =
                        IF TickKeys # {}
                        THEN Append(simulation_data, DataPoint(Elapsed, updated_cells'))
                        ELSE simulation_data
                 /\ UNCHANGED <<tasks_data, simulation_running, simulation_completed,
                                start_time>>

SimulationRun(u) == SimulationRunUpTo(u, MaxLog)

\* The tab without its auto-refresh: the script runs until the first tick is
\* logged and is not run again
RerunOnce(u) ==
    /\ tab_selection = "Real-time Simulation"
    /\ simulation_data = <<>>
    /\ SimulationRun(u)
    /\ UNCHANGED <<tab_selection, now>>

\* The auto-refresh (time.sleep(1); st.rerun()) or any other rerun of the tab
Rerun(u) ==
    /\ tab_selection = "Real-time Simulation"
    /\ SimulationRun(u)
    /\ UNCHANGED <<tab_selection, now>>

\* A variant of "Start Simulation" that keeps the log of the previous run
StartSimulationKeepsLog ==
    /\ tab_selection = "Real-time Simulation"
    /\ SimGuard
    /\ ~simulation_running
    /\ total_simulation_time' = total_time
    /\ simulation_running' = TRUE
    /\ start_time' = now
    /\ simulation_completed' = FALSE
    /\ UNCHANGED <<cells_data, tasks_data, simulation_data, tab_selection,
                   updated_cells, now>>

\* "Start Simulation"
StartSimulation ==
    /\ tab_selection = "Real-time Simulation"
    /\ SimGuard
    /\ ~simulation_running
    /\ total_simulation_time' = total_time
    /\ simulation_running' = TRUE
    /\ start_time' = now
    /\ simulation_data' = <<>>
    /\ simulation_completed' = FALSE
    /\ UNCHANGED <<cells_data, tasks_data, tab_selection, updated_cells, now>>

\* A variant of "Stop Simulation" that also empties the log
StopSimulationClearsLog ==
    /\ tab_selection = "Real-time Simulation"
    /\ SimGuard
    /\ simulation_running
    /\ total_simulation_time' = total_time
    /\ simulation_running' = FALSE
    /\ simulation_completed' = FALSE
    /\ simulation_data' = <<>>
    /\ UNCHANGED <<cells_data, tasks_data, start_time, tab_selection,
                   updated_cells, now>>

\* "Stop Simulation"
StopSimulation ==
    /\ tab_selection = "Real-time Simulation"
    /\ SimGuard
    /\ simulation_running
    /\ total_simulation_time' = total_time
    /\ simulation_running' = FALSE
    /\ simulation_completed' = FALSE
    /\ UNCHANGED <<cells_data, tasks_data, simulation_data, start_time,
                   tab_selection, updated_cells, now>>

\* A variant of "Reset Data" that leaves simulation_completed as it is
ResetDataKeepsCompleted ==
    /\ tab_selection = "Real-time Simulation"
    /\ SimGuard
    /\ total_simulation_time' = total_time
    /\ simulation_data' = <<>>
    /\ simulation_running' = FALSE
    /\ start_time' = None
    /\ UNCHANGED <<cells_data, tasks_data, simulation_completed, tab_selection,
                   updated_cells, now>>

\* A variant of "Reset Data" that also wipes the configuration
ResetDataClearsCells ==
    /\ tab_selection = "Real-time Simulation"
    /\ SimGuard
    /\ total_simulation_time' = total_time
    /\ simulation_data' = <<>>
    /\ simulation_running' = FALSE
    /\ start_time' = None
    /\ simulation_completed' = FALSE
    /\ cells_data' = <<>>
    /\ tasks_data' = <<>>
    /\ UNCHANGED <<tab_selection, updated_cells, now>>

\* "Reset Data"
ResetData ==
    /\ tab_selection = "Real-time Simulation"
    /\ SimGuard
    /\ total_simulation_time' = total_time
    /\ simulation_data' = <<>>
    /\ simulation_running' = FALSE
    /\ start_time' = None
    /\ simulation_completed' = FALSE
    /\ UNCHANGED <<cells_data, tasks_data, tab_selection, updated_cells, now>>

\* The sidebar selectbox is set to "Cell Configuration": the script runs
\* cell_configuration_tab, which writes nothing when no button is pressed
SelectCellConfiguration ==
    /\ tab_selection # "Cell Configuration"
    /\ tab_selection' = "Cell Configuration"
    /\ UNCHANGED <<cells_data, tasks_data, simulation_running, simulation_completed,
                   simulation_data, start_time, total_simulation_time,
                   updated_cells, now>>

\* The sidebar selectbox is set to "Task Management": the script runs
\* task_management_tab
SelectTaskManagement(selected_cell) ==
    /\ tab_selection # "Task Management"
    /\ tab_selection' = "Task Management"
    /\ IF DOMAIN cells_data = {} THEN UNCHANGED tasks_data
       ELSE TaskManagementRun(selected_cell)
    /\ UNCHANGED <<cells_data, simulation_running, simulation_completed,
                   simulation_data, start_time, total_simulation_time,
                   updated_cells, now>>

\* The sidebar selectbox is set to "Real-time Simulation": the script runs
\* simulation_tab
SelectSimulation(u) ==
    /\ tab_selection # "Real-time Simulation"
    /\ tab_selection' = "Real-time Simulation"
    /\ SimulationRun(u)
    /\ UNCHANGED now

\* The selectbox of task_management_tab is changed
SelectCell(selected_cell) ==
    /\ tab_selection = "Task Management"
    /\ TaskManagementRun(selected_cell)
    /\ UNCHANGED <<cells_data, simulation_running, simulation_completed,
                   simulation_data, start_time, total_simulation_time,
                   tab_selection, updated_cells, now>>

\* The sidebar selectbox is set to "Export Data": the script runs export_tab,
\* which writes nothing when no button is pressed
SelectExportData ==
    /\ tab_selection # "Export Data"
    /\ tab_selection' = "Export Data"
    /\ UNCHANGED <<cells_data, tasks_data, simulation_running, simulation_completed,
                   simulation_data, start_time, total_simulation_time,
                   updated_cells, now>>

\* A task as an uploaded file may give it: any task_type, any time_seconds
Task(task_type, time_seconds) ==
    [ task_type |-> task_type, time_seconds |-> time_seconds ]

\* What the uploaded configuration files hold. The first replaces the cells
\* and the tasks: one cell, whose list has a task of a type no branch of
\* simulate_task_execution knows and a task that lasts 0 s. The second has
\* no 'cells' entry and a list with a negative duration.
ImportInputs ==
    { [ cells |-> (CellKey(1, "LFP") :> ManualDefault),
        tasks |-> (CellKey(1, "LFP") :> <<Task("REST", 1), Task("IDLE", 0)>>) ],
      [ tasks |-> (CellKey(1, "LFP") :> <<Task("IDLE", 3), Task("IDLE", -1)>>) @@
                  (CellKey(2, "LFP") :> <<Task("IDLE", 3)>>) ] }

\* "Load Configuration" with an uploaded file; export_tab returns before the
\* uploader when the log is empty
LoadConfiguration(config_data) ==
    /\ tab_selection = "Export Data"
    /\ simulation_data # <<>>
    /\ cells_data' = Get(config_data, "cells", cells_data)
    /\ tasks_data' = Get(config_data, "tasks", tasks_data)
    /\ UNCHANGED <<simulation_running, simulation_completed, simulation_data,
                   start_time, total_simulation_time, tab_selection,
                   updated_cells, now>>

\* A second of wall-clock time passes, up to the given limit. The clock is
\* followed from the first "Start Simulation" on: while start_time is None
\* nothing reads it.
AdvanceTo(limit) ==
    /\ now < limit
    /\ start_time # None
    /\ now' = now + 1
    /\ UNCHANGED <<cells_data, tasks_data, simulation_running, simulation_completed,
                   simulation_data, start_time, total_simulation_time,
                   tab_selection, updated_cells>>

Advance == AdvanceTo(MaxTime)

----------------------------------------------------------------------------
(* The application *)

\* initialize_session_state, and the sidebar's default tab
Init ==
    /\ cells_data = <<>>
    /\ tasks_data = <<>>
    /\ simulation_running = FALSE
    /\ simulation_data = <<>>
    /\ start_time = None
    /\ total_simulation_time = 0
    /\ simulation_completed = FALSE
    /\ tab_selection = "Cell Configuration"
    /\ updated_cells = <<>>
    /\ now = 0
    /\ steps = 0

\* What the quick form may store for one cell
QuickInputs == { QuickCell(ty, d) : ty \in CellTypes, d \in RandomDraws }

\* What the manual form is given for one cell
ManualInputs == {ManualDefault, ManualHighest}

\* The random draws of one tick, one per cell treated
Draws == [ TickKeys -> UniformEnds ]

\* One more step of a behaviour of at most MaxSteps steps
Step == steps < MaxSteps /\ steps' = steps + 1

Next ==
    \/ \E new \in SeqsUpTo(QuickInputs, MaxCells) : QuickAdd(new) /\ Step
    \/ \E new \in SeqsUpTo(ManualInputs, MaxCells) : AddManually(new) /\ Step
    \/ \E cell_key \in DOMAIN cells_data, draw \in RandomDraws :
          Randomize(cell_key, draw) /\ Step
    \/ \E cell_key \in DOMAIN cells_data : RemoveCell(cell_key) /\ Step
    \/ \E cell_key \in DOMAIN cells_data : SelectCell(cell_key) /\ Step
    \/ \E cell_key \in DOMAIN cells_data, task_data \in TaskInputs :
          AddTask(cell_key, task_data) /\ Step
    \/ \E cell_key \in DOMAIN cells_data, i \in 0..(MaxTasks - 1) :
          RemoveTask(cell_key, i) /\ Step
    \/ StartSimulation /\ Step
    \/ StopSimulation /\ Step
    \/ ResetData /\ Step
    \/ \E u \in Draws : Rerun(u) /\ Step
    \/ SelectCellConfiguration /\ Step
    \/ \E selected_cell \in (IF DOMAIN cells_data = {} THEN {CellKey(0, "LFP")}
                             ELSE DOMAIN cells_data) :
          SelectTaskManagement(selected_cell) /\ Step
    \/ \E u \in Draws : SelectSimulation(u) /\ Step
    \/ SelectExportData /\ Step
    \/ \E config_data \in ImportInputs : LoadConfiguration(config_data) /\ Step
    \/ Advance /\ Step

Spec == Init /\ [][Next]_vars

----------------------------------------------------------------------------
(* A run watched from "Start Simulation" on: nothing is pressed, the tab *)
(* reruns and the clock advances.                                        *)

\* The last second the clock of a watched run reaches
MaxRunTime == 21

\* The configurations the runs start from: cells as the manual form's
\* defaults store them, with their task lists
RunConfigs ==
    { [ cells |-> (CellKey(1, "LFP") :> ManualDefault),
        tasks |-> (CellKey(1, "LFP") :> <<CCCV(40000, 200, 10), IDLE(5)>>) ],
      [ cells |-> (CellKey(1, "LFP") :> ManualDefault) @@
                  (CellKey(2, "LFP") :> ManualDefault),
        tasks |-> (CellKey(1, "LFP") :> <<CCCD(30000, 10)>>) @@
                  (CellKey(2, "LFP") :> <<IDLE(10), CCCV(40000, 200, 10)>>) ],
      [ cells |-> (CellKey(1, "LFP") :> ManualDefault),
        tasks |-> (CellKey(1, "LFP") :> <<IDLE(1), CCCD(30000, 2), IDLE(1)>>) ] }

\* The state "Start Simulation" leaves when pressed at time 0
RunInit ==
    \E config \in RunConfigs :
        /\ cells_data = config.cells
        /\ tasks_data = config.tasks
        /\ simulation_running = TRUE
        /\ simulation_data = <<>>
        /\ start_time = 0
        /\ total_simulation_time = TotalTimeOver(config.tasks, DOMAIN config.tasks, 0)
        /\ simulation_completed = FALSE
        /\ tab_selection = "Real-time Simulation"
        /\ updated_cells = <<>>
        /\ now = 0
        /\ steps = 0

RunNext ==
    \/ \E u \in Draws : Rerun(u) /\ UNCHANGED steps
    \/ AdvanceTo(MaxRunTime) /\ UNCHANGED steps

RunSpec == RunInit /\ [][RunNext]_vars

----------------------------------------------------------------------------
(* Runs left to themselves: while a run is on, time passes and the tab     *)
(* refreshes itself, and nothing is pressed; between runs "Start           *)
(* Simulation" and "Reset Data" may be pressed.                            *)

\* The last second the clock of these runs reaches
MaxLiveTime == 9

\* The configurations of these runs: one cell with three tasks (4 s in all),
\* and two cells whose task lists end at different times (2 s and 3 s)
LiveConfigs ==
    { [ cells |-> (CellKey(1, "LFP") :> ManualDefault),
        tasks |-> (CellKey(1, "LFP") :> <<IDLE(1), CCCD(30000, 2), IDLE(1)>>) ],
      [ cells |-> (CellKey(1, "LFP") :> ManualDefault) @@
                  (CellKey(2, "LFP") :> ManualDefault),
        tasks |-> (CellKey(1, "LFP") :> <<CCCV(40000, 200, 2)>>) @@
                  (CellKey(2, "LFP") :> <<IDLE(3)>>) ] }

\* The state "Start Simulation" leaves when pressed at time 0
LiveInit ==
    \E config \in LiveConfigs :
        /\ cells_data = config.cells
        /\ tasks_data = config.tasks
        /\ simulation_running = TRUE
        /\ simulation_data = <<>>
        /\ start_time = 0
        /\ total_simulation_time = TotalTimeOver(config.tasks, DOMAIN config.tasks, 0)
        /\ simulation_completed = FALSE
        /\ tab_selection = "Real-time Simulation"
        /\ updated_cells = <<>>
        /\ now = 0
        /\ steps = 0

\* "Start Simulation" pressed between runs, early enough for the run to end
\* before the clock stops
LiveStart ==
    /\ now + total_time <= MaxLiveTime
    /\ StartSimulation
    /\ UNCHANGED steps

\* "Reset Data" pressed between runs
LiveReset ==
    /\ ~simulation_running
    /\ ResetData
    /\ UNCHANGED steps

LiveRerun == \E u \in Draws : Rerun(u) /\ UNCHANGED steps

LiveAdvance == AdvanceTo(MaxLiveTime) /\ UNCHANGED steps

LiveNext ==
    \/ LiveRerun
    \/ LiveAdvance
    \/ LiveStart
    \/ LiveReset

\* time.sleep(1); st.rerun() at the end of every script run of a run keeps
\* the tab being executed, and time passes
LiveSpec ==
    /\ LiveInit
    /\ [][LiveNext]_vars
    /\ WF_vars(LiveRerun)
    /\ WF_vars(LiveAdvance)

----------------------------------------------------------------------------
(* One task of the task form run on one cell of the manual form, watched *)
(* from "Start Simulation" to the end of the task: nothing is pressed.   *)

\* The last second the clock of a watched task reaches
MaxTaskTime == 5
\* The most data points the run of one task logs
MaxTaskLog == 4

\* Cells as the manual form stores them: both kinds, the voltage at the ends
\* of its range (0..5), at its default and at the default cutoff, with and
\* without a current, and the cell with every field at its highest
TaskCells ==
    { NewCell(ty, v, c, 2500, 0) :
        ty \in CellTypes, v \in {0, 30000, 32000, 50000}, c \in {0, 200} }
        \cup { ManualHighest }

\* Tasks as the task form builds them: CV voltage (0..5) and current (0..10)
\* at the ends of their ranges and at their defaults, the cutoff voltage
\* (0..5) likewise, lasting 1 s or 4 s
FormTasks ==
    { CCCV(cv, i, t) : cv \in {0, 40000, 50000}, i \in {0, 200, 1000}, t \in {1, 4} }
        \cup { CCCD(v, t) : v \in {0, 30000, 50000}, t \in {1, 4} }
        \cup { IDLE(t) : t \in {1, 4} }

\* The state "Start Simulation" leaves when pressed at time 0 with one cell
\* and one task
TaskInit ==
    \E cell_data \in TaskCells, task_data \in FormTasks :
        LET cell_key == CellKey(1, cell_data.type)
        IN  /\ cells_data = (cell_key :> cell_data)
            /\ tasks_data = (cell_key :> <<task_data>>)
            /\ simulation_running = TRUE
            /\ simulation_data = <<>>
            /\ start_time = 0
            /\ total_simulation_time = task_data.time_seconds
            /\ simulation_completed = FALSE
            /\ tab_selection = "Real-time Simulation"
            /\ updated_cells = <<>>
            /\ now = 0
            /\ steps = 0

\* The auto-refresh of the tab during the task
TaskRerun(u) ==
    /\ tab_selection = "Real-time Simulation"
    /\ SimulationRunUpTo(u, MaxTaskLog)
    /\ UNCHANGED <<tab_selection, now, steps>>

TaskNext ==
    \/ \E u \in Draws : TaskRerun(u)
    \/ AdvanceTo(MaxTaskTime) /\ UNCHANGED steps

TaskSpec == TaskInit /\ [][TaskNext]_vars

----------------------------------------------------------------------------
(* Vocabulary of the properties *)

\* The task list of a cell, empty when tasks_data has no entry for it
TaskList(cell_key) == Get(tasks_data, cell_key, <<>>)

\* The time at which task i (counted from 1) of a list starts
CumStart(tasks, i) == SumTime(SubSeq(tasks, 1, i - 1))

\* Task i's window [cum_start, cum_start + duration) contains e
InWindow(tasks, i, e) ==
    /\ CumStart(tasks, i) <= e
    /\ e < CumStart(tasks, i) + tasks[i].time_seconds

\* The sums of durations of the non-empty task lists
Sums == { SumTime(tasks_data[k]) : k \in { c \in DOMAIN tasks_data : tasks_data[c] # <<>> } }

\* The largest of them, 0 when there is none
MaxSum == IF Sums = {} THEN 0 ELSE CHOOSE m \in Sums : \A x \in Sums : x <= m

\* Every task list is exhausted at elapsed time e
AllExhausted(e) == \A x \in Sums : e >= x

\* A step in which a tick is processed: only a tick appends to the log
TickStep == Len(simulation_data') = Len(simulation_data) + 1

\* The report of a cell says it has a task running
Active(report) == report.current_task # "COMPLETED"

LastPoint == simulation_data[Len(simulation_data)]

----------------------------------------------------------------------------
(* C1 *)

\* C1 (as claimed): in every reachable state every cell's voltage lies within
\* [min_voltage, max_voltage] of that cell.
C1_VoltageInBand ==
    \A cell_key \in DOMAIN cells_data :
        /\ cells_data[cell_key].min_voltage <= cells_data[cell_key].voltage
        /\ cells_data[cell_key].voltage <= cells_data[cell_key].max_voltage

----------------------------------------------------------------------------
(* C2 *)

\* C2 (as claimed): the capacity a tick records for a cell equals that cell's
\* voltage times the absolute value of its current at that tick, also when
\* the cell has no task left. Stated of the cells that the tick before, in
\* the same run, reported with a task running.
C2_CapacityDerived ==
    [][ (TickStep /\ simulation_data # <<>>) =>
          \A cell_key \in DOMAIN updated_cells \cap DOMAIN updated_cells' :
              Active(updated_cells[cell_key]) =>
                  updated_cells'[cell_key].capacity =
                      updated_cells'[cell_key].voltage
                          * Abs(updated_cells'[cell_key].current) ]_vars

----------------------------------------------------------------------------
(* C3 *)

\* C3: at a processed tick with elapsed time e, for every cell whose task list
\* has 0 <= e < the sum of its durations, the task reported is the one task
\* whose half-open window [cum_start, cum_start + duration) contains e, and
\* the elapsed time within it is e - cum_start; at a cumulative boundary that
\* is the task starting, not the one ending.
C3_HalfOpenWindow ==
    simulation_data # <<>> =>
        \A cell_key \in DOMAIN updated_cells :
            LET tasks  == tasks_data[cell_key]
                e      == LastPoint.elapsed
                report == updated_cells[cell_key]
            IN  (0 <= e /\ e < SumTime(tasks)) =>
                    /\ Active(report)
                    /\ report.task_index \in 1..Len(tasks)
                    /\ InWindow(tasks, report.task_index, e)
                    /\ \A j \in 1..Len(tasks) :
                          InWindow(tasks, j, e) => j = report.task_index
                    /\ report.current_task = tasks[report.task_index].task_type
                    /\ report.task_elapsed = e - CumStart(tasks, report.task_index)

\* [CC_CV 10 s, IDLE 5 s] at elapsed 12: IDLE, 2 s into it
C3_Witness ==
    /\ simulation_data # <<>>
    /\ LastPoint.elapsed = 12
    /\ CellKey(1, "LFP") \in DOMAIN updated_cells
    /\ tasks_data[CellKey(1, "LFP")] = <<CCCV(40000, 200, 10), IDLE(5)>>
    /\ updated_cells[CellKey(1, "LFP")].current_task = "IDLE"
    /\ updated_cells[CellKey(1, "LFP")].task_index = 2
    /\ updated_cells[CellKey(1, "LFP")].task_elapsed = 2

----------------------------------------------------------------------------
(* C4 *)

\* C4 (as claimed): at every processed tick, a cell with a non-empty task list whose
\* durations sum to no more than the elapsed time is reported COMPLETED with
\* task_index equal to the number of its tasks, and its record is not written.
C4_ExhaustedIsCompleted ==
    [][ TickStep =>
          \A cell_key \in TickKeys :
              Elapsed >= SumTime(tasks_data[cell_key]) =>
                  /\ cell_key \in DOMAIN updated_cells'
                  /\ updated_cells'[cell_key].current_task = "COMPLETED"
                  /\ updated_cells'[cell_key].task_index = Len(tasks_data[cell_key])
                  /\ cells_data'[cell_key] = cells_data[cell_key] ]_vars

----------------------------------------------------------------------------
(* C5 *)

\* C5 (as claimed): a cell that one tick of a run reported with a task
\* running, and whose task list is exhausted at the next processed tick, is
\* reported by that tick with current 0 and capacity 0, and with the voltage
\* and temperature of the tick before.
C5_ExhaustedCellAtRest ==
    [][ (TickStep /\ simulation_data # <<>>) =>
          \A cell_key \in TickKeys \cap DOMAIN updated_cells :
              (Active(updated_cells[cell_key])
                 /\ Elapsed >= SumTime(tasks_data[cell_key])) =>
                  /\ updated_cells'[cell_key].current = 0
                  /\ updated_cells'[cell_key].capacity = 0
                  /\ updated_cells'[cell_key].voltage = updated_cells[cell_key].voltage
                  /\ updated_cells'[cell_key].temp = updated_cells[cell_key].temp ]_vars

----------------------------------------------------------------------------
(* C6 *)

\* C6 (as claimed): from one processed tick of a run to the next, no cell's
\* reported task index decreases, and a cell reported COMPLETED is not
\* reported with a running task again, whatever is done between the ticks.
C6_IndexNeverDecreases ==
    [][ (TickStep /\ simulation_data # <<>>) =>
          \A cell_key \in DOMAIN updated_cells \cap DOMAIN updated_cells' :
              /\ updated_cells'[cell_key].task_index >= updated_cells[cell_key].task_index
              /\ ~Active(updated_cells[cell_key]) => ~Active(updated_cells'[cell_key]) ]_vars

----------------------------------------------------------------------------
(* C7 *)

\* C7 (as claimed): while simulation_running is true, no step changes the
\* task list of a cell.
C7_TasksFrozenWhileRunning ==
    [][ simulation_running =>
          \A cell_key \in DOMAIN cells_data \cap DOMAIN cells_data' :
              Get(tasks_data', cell_key, <<>>) = TaskList(cell_key) ]_vars

----------------------------------------------------------------------------
(* C8 *)

\* C8 (as claimed): whenever simulation_tab has run, total_simulation_time is
\* the largest sum of durations over the cells that have tasks.
C8_TotalWheneverTabRuns ==
    tab_selection = "Real-time Simulation" => total_simulation_time = MaxSum

\* C8 (amended): whenever simulation_tab has run past its two guards (some
\* cell is configured and some task list is not empty), total_simulation_time
\* is the largest sum of durations over the non-empty task lists, or 0 when
\* every such sum is negative.
C8_TotalPastGuards ==
    (tab_selection = "Real-time Simulation" /\ SimGuard) =>
        total_simulation_time = Max(0, MaxSum)

\* simulation_tab has run with two task lists of different total durations
C8_Witness ==
    /\ tab_selection = "Real-time Simulation"
    /\ SimGuard
    /\ Cardinality(Sums) >= 2
    /\ total_simulation_time = MaxSum

----------------------------------------------------------------------------
(* C9 *)

----------------------------------------------------------------------------
(* C10 *)

\* C10: every step that takes the driver from not Running to Running leaves
\* the log empty, start_time equal to the clock (so the elapsed time is 0),
\* and simulation_completed false.
C10_StartResets ==
    [][ (~simulation_running /\ simulation_running') =>
          /\ simulation_data' = <<>>
          /\ start_time' # None
          /\ now' - start_time' = 0
          /\ ~simulation_completed' ]_vars

\* A run has just been started after an earlier run that processed a tick
\* and lasted some time
C10_Witness ==
    /\ simulation_running
    /\ simulation_data = <<>>
    /\ start_time = now
    /\ now > 0
    /\ updated_cells # <<>>

----------------------------------------------------------------------------
(* C11 *)

\* C11: "Stop Simulation" leaves the driver not running and not completed
\* with the log as it was; while the driver is not running no script run adds
\* to the log; and every step that takes the driver back to running leaves
\* the log empty, so the stopped run is not resumed.
C11_StopKeepsLog ==
    [][ /\ StopSimulation =>
              /\ ~simulation_running' /\ ~simulation_completed'
              /\ simulation_data' = simulation_data
        /\ ~simulation_running =>
              (simulation_data' = simulation_data \/ simulation_data' = <<>>)
        /\ (~simulation_running /\ simulation_running') =>
              (simulation_data' = <<>> /\ now' - start_time' = 0) ]_vars

\* A run that logged a tick has been stopped, and time has passed since
C11_Witness ==
    /\ ~simulation_running /\ ~simulation_completed
    /\ simulation_data # <<>>
    /\ start_time # None
    /\ now > LastPoint.timestamp

----------------------------------------------------------------------------
(* C12 *)

\* Every task has a positive duration and a task_type the simulation knows
ValidTasks ==
    \A cell_key \in DOMAIN tasks_data :
        \A i \in 1..Len(tasks_data[cell_key]) :
            /\ tasks_data[cell_key][i].time_seconds > 0
            /\ tasks_data[cell_key][i].task_type \in {"CC_CV", "CC_CD", "IDLE"}

\* C12 (as claimed): every step that makes simulation_running true does so
\* with at least one cell configured, at least one cell that has a task, and
\* only tasks of positive duration and known task_type.
C12_StartsOnlyValid ==
    [][ (~simulation_running /\ simulation_running') =>
          /\ DOMAIN cells_data' # {}
          /\ \E cell_key \in DOMAIN cells_data' :
                Get(tasks_data', cell_key, <<>>) # <<>>
          /\ ValidTasks' ]_vars

----------------------------------------------------------------------------
(* C13 *)

\* C13 (as claimed): a step of a run that stays Running either leaves the log
\* as it is or appends one data point to it, keeping the earlier entries, and
\* the data point appended has a reading for every configured cell, also for
\* the cells whose task list is empty.
C13_LogAppendOnlyComplete ==
    [][ (simulation_running /\ simulation_running') =>
          \/ simulation_data' = simulation_data
          \/ /\ TickStep
             /\ SubSeq(simulation_data', 1, Len(simulation_data)) = simulation_data
             /\ DOMAIN simulation_data'[Len(simulation_data')].cells
                    = DOMAIN cells_data ]_vars

----------------------------------------------------------------------------
(* C14 *)

\* C14 (as claimed): in every reachable state every cell's temperature lies
\* within the band [20, 60] degrees C, whatever task ran.
C14_TemperatureInBand ==
    \A cell_key \in DOMAIN cells_data :
        /\ 2000 <= cells_data[cell_key].temp
        /\ cells_data[cell_key].temp <= 6000

----------------------------------------------------------------------------
(* C15 *)

\* C15 (as claimed): at every tick that reports a cell with a CC_CD task
\* running, the current the tick leaves on the cell is strictly negative.
C15_DischargeCurrentNegative ==
    [][ TickStep =>
          \A cell_key \in DOMAIN updated_cells' :
              updated_cells'[cell_key].current_task = "CC_CD" =>
                  cells_data'[cell_key].current < 0 ]_vars

----------------------------------------------------------------------------
(* C16 *)

\* The tick of this step and the tick before it, in the same run, report the
\* cell in the same task, of the given type
SameTask(cell_key, task_type) ==
    /\ TickStep
    /\ simulation_data # <<>>
    /\ cell_key \in DOMAIN updated_cells \cap DOMAIN updated_cells'
    /\ updated_cells[cell_key].current_task = task_type
    /\ updated_cells'[cell_key].current_task = task_type
    /\ updated_cells'[cell_key].task_index = updated_cells[cell_key].task_index

\* The task a report says is running
RunningTask(cell_key, report) == tasks_data[cell_key][report.task_index]

\* C16 (as claimed): from one tick of a CC_CD task to the next tick of the
\* same task, the cell's voltage does not increase, and a voltage at or above
\* the task's cutoff (its 'voltage' parameter when given, else the cell's
\* min_voltage) does not fall below that cutoff.
C16_DischargeTowardsCutoff ==
    [][ \A cell_key \in DOMAIN cells_data :
          SameTask(cell_key, "CC_CD") =>
              LET cutoff == Get(RunningTask(cell_key, updated_cells[cell_key]),
                                "voltage", cells_data[cell_key].min_voltage)
              IN  /\ cells_data'[cell_key].voltage <= cells_data[cell_key].voltage
                  /\ cells_data[cell_key].voltage >= cutoff =>
                         cells_data'[cell_key].voltage >= cutoff ]_vars

----------------------------------------------------------------------------
(* C17 *)

\* The tick of this step reports the cell with a task of the given type
TickOf(cell_key, task_type) ==
    /\ TickStep
    /\ cell_key \in DOMAIN updated_cells'
    /\ updated_cells'[cell_key].current_task = task_type

\* C17: from one tick of a CC_CV task to the next tick of the same task the
\* cell's voltage does not decrease; at every tick of the task it is at most
\* the target (cv_voltage, or the cell's max_voltage when the task has none),
\* and it equals the target at every tick whose elapsed time within the task
\* is at least half the task's duration.
C17_ChargeTowardsTarget ==
    [][ \A cell_key \in DOMAIN cells_data :
          /\ SameTask(cell_key, "CC_CV") =>
                 cells_data'[cell_key].voltage >= cells_data[cell_key].voltage
          /\ TickOf(cell_key, "CC_CV") =>
                 LET report == updated_cells'[cell_key]
                     task   == RunningTask(cell_key, report)
                     target == Get(task, "cv_voltage", cells_data[cell_key].max_voltage)
                 IN  /\ cells_data'[cell_key].voltage <= target
                     /\ 2 * report.task_elapsed >= task.time_seconds =>
                            cells_data'[cell_key].voltage = target ]_vars

\* Three ticks of one CC_CV task: the voltage rose during the constant-current
\* half and is at the target in the constant-voltage half
C17_Witness ==
    /\ Len(simulation_data) >= 3
    /\ \E cell_key \in DOMAIN updated_cells :
          LET report == updated_cells[cell_key]
              task   == RunningTask(cell_key, report)
          IN  /\ report.current_task = "CC_CV"
              /\ 2 * report.task_elapsed >= task.time_seconds
              /\ simulation_data[1].cells[cell_key].voltage
                     < simulation_data[2].cells[cell_key].voltage
              /\ simulation_data[2].cells[cell_key].voltage
                     < simulation_data[3].cells[cell_key].voltage
              /\ simulation_data[3].cells[cell_key].voltage = task.cv_voltage

----------------------------------------------------------------------------
(* C18 *)

\* C18 (as claimed): at a tick of a CC_CV task in its constant-current half
\* (elapsed time within the task below half its duration) the cell's current
\* is the task's current; at a tick in its constant-voltage half the current
\* is non-negative and no greater than the task's current.
C18_CurrentDecays ==
    [][ \A cell_key \in DOMAIN cells_data :
          TickOf(cell_key, "CC_CV") =>
              LET report == updated_cells'[cell_key]
                  task   == RunningTask(cell_key, report)
              IN  IF 2 * report.task_elapsed < task.time_seconds
                  THEN cells_data'[cell_key].current = task.current
                  ELSE /\ 0 <= cells_data'[cell_key].current
                       /\ cells_data'[cell_key].current <= task.current ]_vars

----------------------------------------------------------------------------
(* C19 *)

\* C19: a tick of an IDLE task leaves the cell with current 0 and capacity 0
\* and changes no other field than the temperature (voltage, min_voltage and
\* max_voltage are as before); so an LFP cell whose voltage is within
\* [2.8, 3.6] before the tick has current 0 and a voltage within [2.8, 3.6]
\* after it.
C19_IdleHoldsVoltage ==
    [][ \A cell_key \in DOMAIN cells_data :
          TickOf(cell_key, "IDLE") =>
              LET before == cells_data[cell_key]
                  after  == cells_data'[cell_key]
              IN  /\ after = [ before EXCEPT !.current = 0, !.capacity = 0,
                                             !.temp = after.temp ]
                  /\ ( /\ before.type = "LFP"
                       /\ 28000 <= before.voltage
                       /\ before.voltage <= 36000 ) =>
                         ( /\ after.current = 0
                           /\ 28000 <= after.voltage
                           /\ after.voltage <= 36000 ) ]_vars

\* The first tick of an IDLE task on a cell configured with a current and a
\* capacity: both are 0 after it, the temperature has gone down, the voltage
\* is the configured one
C19_Witness ==
    /\ Len(simulation_data) = 1
    /\ \E cell_key \in DOMAIN updated_cells :
          /\ updated_cells[cell_key].current_task = "IDLE"
          /\ cells_data[cell_key] =
                 [ ManualHighest EXCEPT !.current = 0, !.capacity = 0,
                                        !.temp = ManualHighest.temp - 5 ]

----------------------------------------------------------------------------
(* C20 *)

\* C20 (as claimed): submitting an add form, quick or manual, for k cells
\* makes the number of configured cells k greater and leaves every cell
\* configured before, with its data and its task list, as it was.
C20_AddKeepsCells ==
    [][ \A new \in SeqsUpTo(QuickInputs \cup ManualInputs, MaxCells) :
          (QuickAdd(new) \/ AddManually(new)) =>
              /\ Cardinality(DOMAIN cells_data')
                     = Cardinality(DOMAIN cells_data) + Len(new)
              /\ \A cell_key \in DOMAIN cells_data :
                    /\ cell_key \in DOMAIN cells_data'
                    /\ cells_data'[cell_key] = cells_data[cell_key]
                    /\ TaskList(cell_key)' = TaskList(cell_key) ]_vars

----------------------------------------------------------------------------
(* C21 *)

\* C21: simulation_running and simulation_completed are never both true;
\* simulation_completed becomes true only in a step of a run (it was running
\* and stops) whose elapsed time has reached total_simulation_time; and
\* "Start Simulation", "Stop Simulation" and "Reset Data" each leave it false.
C21_CompletedOnlyByCheck ==
    [][ /\ ~(simulation_running /\ simulation_completed)
        /\ ~(simulation_running' /\ simulation_completed')
        /\ (~simulation_completed /\ simulation_completed') =>
               /\ simulation_running
               /\ ~simulation_running'
               /\ Elapsed >= total_simulation_time'
        /\ (StartSimulation \/ StopSimulation \/ ResetData) =>
               ~simulation_completed' ]_vars

\* A run that logged a tick and was then ended by the completion check
C21_Witness ==
    /\ simulation_completed
    /\ ~simulation_running
    /\ simulation_data # <<>>
    /\ start_time # None
    /\ total_simulation_time > 0
    /\ Elapsed >= total_simulation_time

----------------------------------------------------------------------------
(* C22 *)

\* The driver is in the Completed state
Completed == ~simulation_running /\ simulation_completed

\* C22: a run that is left to itself (the tab keeps being executed, nothing
\* is pressed) eventually reaches Completed, and Completed is left by no step
\* other than "Start Simulation" or "Reset Data".
C22_RunCompletes ==
    /\ simulation_running ~> Completed
    /\ [][ (Completed /\ ~Completed') => (StartSimulation \/ ResetData) ]_vars

\* A second run, started after the first one completed, has completed too
C22_Witness ==
    /\ Completed
    /\ start_time # None
    /\ start_time > 0
    /\ simulation_data # <<>>
    /\ now - start_time >= total_simulation_time

----------------------------------------------------------------------------
(* C23 *)

\* The cell has the values the last processed tick reported for it
AsLeftByTick(cell_key) ==
    /\ cell_key \in DOMAIN updated_cells \cap DOMAIN cells_data
    /\ \A f \in LoggedFields : cells_data[cell_key][f] = updated_cells[cell_key][f]

\* C23: "Start Simulation", "Stop Simulation" and "Reset Data" leave
\* cells_data and tasks_data as they are; a cell that has the values the last
\* processed tick left has them still after the button, so the next run starts
\* from them.
C23_RunControlKeepsConfiguration ==
    [][ (StartSimulation \/ StopSimulation \/ ResetData) =>
          /\ cells_data' = cells_data
          /\ tasks_data' = tasks_data
          /\ \A cell_key \in DOMAIN cells_data :
                AsLeftByTick(cell_key) => AsLeftByTick(cell_key)' ]_vars

\* A run just started, with nothing logged yet, on a cell that still carries
\* the current and the temperature the CC_CV tick of the run before gave it
C23_Witness ==
    /\ simulation_running
    /\ simulation_data = <<>>
    /\ \E cell_key \in DOMAIN cells_data :
          /\ AsLeftByTick(cell_key)
          /\ updated_cells[cell_key].current_task = "CC_CV"
          /\ cells_data[cell_key].current = 200
          /\ cells_data[cell_key].temp # 2500

====
